---- MODULE Spec2Model ----
(***************************************************************************)
(* ZstdProcessor (src/zstd.js): one processor object, its codec handle,    *)
(* its dictionary and its metrics, driven by init(), createDictionary(),   *)
(* compressWithProgress() (one-shot and chunked, with a timer yield        *)
(* between chunks), decompress() and getMetrics().                         *)
(*                                                                         *)
(* One action is one run-to-completion piece of JavaScript: the part of a  *)
(* call that runs between two awaits.  The codec library                   *)
(* (@oneidentity/zstd-js) is not part of the repository; it is modelled as *)
(* a framed one-shot transform; what its decoder does with a buffer that   *)
(* is not exactly one frame is the library's choice (variable lib).        *)
(***************************************************************************)
EXTENDS Integers, Sequences, FiniteSets, TLC

VARIABLES
    codec,              \* this.codec: 0 is null, k > 0 the handle of the k-th ZstdInit()
    dictionary,         \* this.dictionary: a JS value (Null or Bytes(..))
    performanceMetrics, \* this.performanceMetrics
    inits,              \* one entry per init() call: "pending" | "ready" | "failed"
    lib,                \* how the library's decoder treats several frames
    call,               \* the compressWithProgress invocations
    dres,               \* the decompress() call of the latest step, if it was one
    dictCall,           \* the createDictionary() call of the latest step, if it was one
    lastReturn          \* sizes of the latest compressWithProgress() call that returned

vars == <<codec, dictionary, performanceMetrics, inits, lib, call, dres,
          dictCall, lastReturn>>

----------------------------------------------------------------------------
(* Bounds of the model *)

MaxLen == 2     \* longest input buffer
MaxChunks == 3  \* passes of the chunk loop explored (more than MaxLen)
MaxInits == 2   \* init() calls
MaxInput == 10  \* longest input buffer of the chunking specification

(* Inputs *)

ByteVals == {1, 2}
Calls == {1, 2}
Levels == {5, 9}
ChunkSizes == {-1, 0, 1, 2}
Durations == {1, 2}
Outcomes == {"ok", "codecThrows", "callbackThrows"}
KArgs == {1, 1024}

DictLimit == 1024
DefaultChunkSize == 1048576

Min(a, b) == IF a < b THEN a ELSE b
Max(a, b) == IF a < b THEN b ELSE a

BuffersUpTo(n) == UNION {[1..k -> ByteVals] : k \in 0..n}

\* new Uint8Array(n).map((_, i) => i % 256)
Ramp(n) == [k \in 1..n |-> (k - 1) % 256]

Samples == {<<>>, <<1>>, Ramp(DictLimit + 1)}

----------------------------------------------------------------------------
(* JavaScript values *)

Undefined == [kind |-> "undefined", bytes |-> <<>>]
Null == [kind |-> "null", bytes |-> <<>>]
Bytes(b) == [kind |-> "bytes", bytes |-> b]

\* Uint8Array.prototype.slice(start, end): relative indices, clamped
RelIndex(k, len) == IF k < 0 THEN Max(len + k, 0) ELSE Min(k, len)

Slice(s, start, end) ==
    LET from == RelIndex(start, Len(s))
        to == RelIndex(end, Len(s))
    IN  IF from < to THEN SubSeq(s, from + 1, to) ELSE <<>>

----------------------------------------------------------------------------
(* The codec library: a frame is <<magic, level, dictionary id, n>> and n  *)
(* payload bytes.                                                          *)

DictId(d) ==
    IF d.kind = "bytes" /\ Len(d.bytes) > 0
    THEN 1 + ((7 * Len(d.bytes) + 3 * d.bytes[1] + d.bytes[Len(d.bytes)]) % 255)
    ELSE 0

CodecFrame(data, level, dict) ==
    <<40, level % 256, DictId(dict), Len(data)>>
        \o [k \in 1..Len(data) |-> 255 - data[k]]

ZstdSimpleCompress(data, level, dict) == CodecFrame(data, level, dict)

ZstdStreamCompress(chunk, level, dict) == CodecFrame(chunk, level, dict)

DecodeFail == [ok |-> FALSE, out |-> <<>>]

\* The decoder, by what the library does with what follows a frame:
\*   "multiFrame"  decodes frame after frame, rejects an incomplete one
\*   "singleFrame" expects exactly one frame
\*   "lenient"     decodes frame after frame and stops without an error
\*                 where the input ends inside a frame
RECURSIVE CodecDecode(_, _, _)
CodecDecode(buf, dict, mode) ==
    IF Len(buf) < 4
    THEN IF mode = "lenient" THEN [ok |-> TRUE, out |-> <<>>] ELSE DecodeFail
    ELSE IF buf[1] # 40 \/ buf[3] # DictId(dict)
    THEN DecodeFail
    ELSE IF Len(buf) < 4 + buf[4]
    THEN IF mode = "lenient" THEN [ok |-> TRUE, out |-> <<>>] ELSE DecodeFail
    ELSE LET n == buf[4]
             out == [k \in 1..n |-> 255 - buf[4 + k]]
             rest == SubSeq(buf, 5 + n, Len(buf))
         IN  IF Len(rest) = 0
             THEN [ok |-> TRUE, out |-> out]
             ELSE IF mode = "singleFrame"
             THEN DecodeFail
             ELSE LET r == CodecDecode(rest, dict, mode)
                  IN  IF r.ok THEN [ok |-> TRUE, out |-> out \o r.out] ELSE r

ZstdStreamDecompress(buf, dict) ==
    IF Len(buf) = 0
    THEN IF lib = "singleFrame" THEN DecodeFail ELSE [ok |-> TRUE, out |-> <<>>]
    ELSE CodecDecode(buf, dict, lib)

----------------------------------------------------------------------------
(* constructor *)

InitialMetrics ==
    [compressionTime |-> 0, decompressionTime |-> 0,
     originalSize |-> 0, compressedSize |-> 0]

IdleCall ==
    [pc |-> "idle", data |-> <<>>, level |-> 0, useStream |-> FALSE,
     useDictionary |-> FALSE, chunkSize |-> 0, cb |-> FALSE, i |-> 0,
     chunks |-> <<>>, log |-> <<>>, progress |-> <<>>, yields |-> 0,
     result |-> <<>>, error |-> ""]

NoSource ==
    [fromCall |-> FALSE, data |-> <<>>, useStream |-> FALSE,
     useDictionary |-> FALSE, chunkSize |-> 0, dictArgs |-> {},
     truncated |-> FALSE]

NoDecompress ==
    [called |-> FALSE, input |-> <<>>, useDictionary |-> FALSE,
     dict |-> Undefined, status |-> "", out |-> <<>>, error |-> "",
     codecCalled |-> FALSE, src |-> NoSource]

NoDictCall == [called |-> FALSE, sample |-> <<>>, k |-> 0, ret |-> <<>>]

NoReturn == [valid |-> FALSE, originalLength |-> 0, returnedLength |-> 0]

Init ==
    /\ codec = 0
    /\ dictionary = Null
    /\ performanceMetrics = InitialMetrics
    /\ inits = <<>>
    /\ lib \in {"multiFrame", "singleFrame", "lenient"}
    /\ call = [s \in Calls |-> IdleCall]
    /\ dres = NoDecompress
    /\ dictCall = NoDictCall
    /\ lastReturn = NoReturn

----------------------------------------------------------------------------
(* init() *)

\* No decompress() and no createDictionary() call in this step
NoCallEvent == dres' = NoDecompress /\ dictCall' = NoDictCall

InitCall(limit) ==
    /\ Len(inits) < limit
    /\ inits' = Append(inits, "pending")
    /\ NoCallEvent
    /\ UNCHANGED <<codec, dictionary, performanceMetrics, lib, call,
                   lastReturn>>

InitResolve(k) ==
    /\ inits[k] = "pending"
    /\ codec' = k
    /\ inits' = [inits EXCEPT ![k] = "ready"]
    /\ NoCallEvent
    /\ UNCHANGED <<dictionary, performanceMetrics, lib, call, lastReturn>>

InitReject(k) ==
    /\ inits[k] = "pending"
    /\ inits' = [inits EXCEPT ![k] = "failed"]
    /\ NoCallEvent
    /\ UNCHANGED <<codec, dictionary, performanceMetrics, lib, call,
                   lastReturn>>

----------------------------------------------------------------------------
(* createDictionary(sampleData); a second argument is not read *)

DictionaryWhole(sampleData) == Slice(sampleData, 0, Len(sampleData))

DictionaryOf(sampleData) ==
    Slice(sampleData, 0, Min(Len(sampleData), DictLimit))

createDictionary(sampleData, k) ==
    /\ dictionary' = Bytes(DictionaryOf(sampleData))
    /\ dictCall' = [called |-> TRUE, sample |-> sampleData, k |-> k,
                    ret |-> dictionary'.bytes]
    /\ dres' = NoDecompress
    /\ UNCHANGED <<codec, performanceMetrics, inits, lib, call, lastReturn>>

----------------------------------------------------------------------------
(* compressWithProgress(data, options, progressCallback) *)

ProgressUnclamped(i, chunkSize, length) ==
    [num |-> i + chunkSize, den |-> length]

\* Math.min((i + chunkSize) / data.length, 1), as a fraction over data.length
ProgressOf(i, chunkSize, length) ==
    IF i + chunkSize >= length
    THEN [num |-> length, den |-> length]
    ELSE [num |-> i + chunkSize, den |-> length]

ConcatLast(chunks) ==
    IF Len(chunks) = 0 THEN <<>> ELSE chunks[Len(chunks)]

\* chunks.reduce(...), new Uint8Array(totalLength), result.set(chunk, offset)
RECURSIVE Concat(_)
Concat(chunks) ==
    IF Len(chunks) = 0
    THEN <<>>
    ELSE chunks[1] \o Concat(Tail(chunks))

\* The dictionary argument of a codec call
DictArg(useDictionary) == IF useDictionary THEN dictionary ELSE Undefined

ChunkToEnd(c) == Slice(c.data, c.i, Len(c.data))

ChunkOfFirstCall(c) == Slice(call[1].data, c.i, c.i + c.chunkSize)

\* The chunk of one pass of the loop
ChunkAt(c) == Slice(c.data, c.i, c.i + c.chunkSize)

\* streamCompress from the loop test at index c.i up to the next await:
\* one chunk sliced, compressed, pushed and reported, or the loop left and
\* the chunks concatenated.  A throw leaves through compressWithProgress's
\* catch.
StreamStep(c, outcome) ==
    IF c.i < Len(c.data)
    THEN LET chunk == ChunkAt(c)
             dict == DictArg(c.useDictionary)
             compressedChunk == ZstdStreamCompress(chunk, c.level, dict)
             entry == [fn |-> "ZstdStream.compress", chunk |-> chunk,
                       dict |-> dict, threw |-> outcome = "codecThrows",
                       out |-> IF outcome = "codecThrows"
                               THEN <<>> ELSE compressedChunk]
             report == [frac |-> ProgressOf(c.i, c.chunkSize, Len(c.data)),
                        size |-> Len(compressedChunk)]
         IN  IF outcome = "codecThrows"
             THEN [c EXCEPT !.pc = "failed",
                            !.log = Append(@, entry),
                            !.error = "Compression failed: codec"]
             ELSE IF c.cb /\ outcome = "callbackThrows"
             THEN [c EXCEPT !.pc = "failed",
                            !.chunks = Append(@, compressedChunk),
                            !.log = Append(@, entry),
                            !.progress = Append(@, report),
                            !.error = "Compression failed: callback"]
             ELSE [c EXCEPT !.pc = "yield",
                            !.chunks = Append(@, compressedChunk),
                            !.log = Append(@, entry),
                            !.progress = IF c.cb THEN Append(@, report) ELSE @,
                            !.yields = @ + 1]
    ELSE [c EXCEPT !.pc = "await", !.result = Concat(c.chunks)]

RecordCumulative(m, t, data, compressedData) ==
    [m EXCEPT !.compressionTime = t,
              !.originalSize = @ + Len(data),
              !.compressedSize = @ + Len(compressedData)]

\* this.performanceMetrics.compressionTime / originalSize / compressedSize
RecordCompression(m, t, data, compressedData) ==
    [m EXCEPT !.compressionTime = t,
              !.originalSize = Len(data),
              !.compressedSize = Len(compressedData)]

\* The call as entered: the options destructured
Entered(data, level, useStream, useDictionary, chunkSize, cb) ==
    [IdleCall EXCEPT !.data = data, !.level = level, !.useStream = useStream,
                     !.useDictionary = useDictionary, !.chunkSize = chunkSize,
                     !.cb = cb]

NotYetRequested == codec = 0 /\ Len(inits) = 0

\* if (!this.codec)
NotInitialized == codec = 0

compressWithProgress(s, data, level, useStream, useDictionary, chunkSize, cb, outcome, t) ==
    LET c == Entered(data, level, useStream, useDictionary, chunkSize, cb)
        dict == DictArg(useDictionary)
        compressedData == ZstdSimpleCompress(data, level, dict)
        entry == [fn |-> "ZstdSimple.compress", chunk |-> data, dict |-> dict,
                  threw |-> outcome = "codecThrows",
                  out |-> IF outcome = "codecThrows"
                          THEN <<>> ELSE compressedData]
    IN
    /\ call[s].pc = "idle"
    /\ IF NotInitialized
       THEN /\ call' = [call EXCEPT ![s] =
                   [c EXCEPT !.pc = "failed", !.error = "ZSTD not initialized"]]
            /\ UNCHANGED <<performanceMetrics, lastReturn>>
       ELSE IF useStream
       THEN /\ call' = [call EXCEPT ![s] = StreamStep(c, outcome)]
            /\ UNCHANGED <<performanceMetrics, lastReturn>>
       ELSE IF outcome = "codecThrows"
       THEN /\ call' = [call EXCEPT ![s] =
                   [c EXCEPT !.pc = "failed", !.log = <<entry>>,
                             !.error = "Compression failed: codec"]]
            /\ UNCHANGED <<performanceMetrics, lastReturn>>
       ELSE /\ call' = [call EXCEPT ![s] =
                   [c EXCEPT !.pc = "done", !.log = <<entry>>,
                             !.result = compressedData]]
            /\ performanceMetrics' =
                   RecordCompression(performanceMetrics, t, data, compressedData)
            /\ lastReturn' = [valid |-> TRUE, originalLength |-> Len(data),
                              returnedLength |-> Len(compressedData)]
    /\ NoCallEvent
    /\ UNCHANGED <<codec, dictionary, inits, lib>>

TimerFiresAfterFailure(s, outcome) ==
    /\ call[s].pc \in {"yield", "failed"}
    /\ call[s].useStream
    /\ Len(call[s].log) \in 1..(MaxChunks - 1)
    /\ call' = [call EXCEPT ![s] =
           StreamStep([call[s] EXCEPT !.i = @ + call[s].chunkSize], outcome)]
    /\ NoCallEvent
    /\ UNCHANGED <<codec, dictionary, performanceMetrics, inits, lib,
                   lastReturn>>

\* setTimeout(resolve, 0) fires: i += chunkSize and the next pass
TimerFires(s, outcome) ==
    /\ call[s].pc = "yield"
    /\ \/ Len(call[s].chunks) < MaxChunks
       \/ call[s].i + call[s].chunkSize >= Len(call[s].data)
    /\ call' = [call EXCEPT ![s] =
           StreamStep([call[s] EXCEPT !.i = @ + call[s].chunkSize], outcome)]
    /\ NoCallEvent
    /\ UNCHANGED <<codec, dictionary, performanceMetrics, inits, lib,
                   lastReturn>>

\* compressWithProgress resumes after `await this.streamCompress(...)`
StreamReturns(s, t) ==
    /\ call[s].pc = "await"
    /\ call' = [call EXCEPT ![s].pc = "done"]
    /\ performanceMetrics' =
           RecordCompression(performanceMetrics, t, call[s].data, call[s].result)
    /\ lastReturn' = [valid |-> TRUE, originalLength |-> Len(call[s].data),
                      returnedLength |-> Len(call[s].result)]
    /\ NoCallEvent
    /\ UNCHANGED <<codec, dictionary, inits, lib>>

----------------------------------------------------------------------------
(* decompress(compressedData, useDictionary) *)

ResetAndRecord(m, t) == [InitialMetrics EXCEPT !.decompressionTime = t]

\* this.performanceMetrics.decompressionTime
RecordDecompression(m, t) == [m EXCEPT !.decompressionTime = t]

decompress(compressedData, useDictionary, src, t) ==
    LET dict == DictArg(useDictionary)
        r == ZstdStreamDecompress(compressedData, dict)
        d == [NoDecompress EXCEPT !.called = TRUE, !.input = compressedData,
                                  !.useDictionary = useDictionary,
                                  !.dict = dict, !.src = src]
    IN
    /\ IF NotInitialized
       THEN /\ dres' = [d EXCEPT !.status = "failed",
                                 !.error = "ZSTD not initialized"]
            /\ UNCHANGED performanceMetrics
       ELSE IF r.ok
       THEN /\ dres' = [d EXCEPT !.status = "ok", !.out = r.out,
                                 !.codecCalled = TRUE]
            /\ performanceMetrics' = RecordDecompression(performanceMetrics, t)
       ELSE /\ dres' = [d EXCEPT !.status = "failed", !.codecCalled = TRUE,
                                 !.error = "Decompression failed: codec"]
            /\ UNCHANGED performanceMetrics
    /\ dictCall' = NoDictCall
    /\ UNCHANGED <<codec, dictionary, inits, lib, call, lastReturn>>

\* What the caller knows of the compress call whose output it passes on
SourceOf(c, truncated) ==
    [fromCall |-> TRUE, data |-> c.data, useStream |-> c.useStream,
     useDictionary |-> c.useDictionary, chunkSize |-> c.chunkSize,
     dictArgs |-> {c.log[k].dict : k \in 1..Len(c.log)},
     truncated |-> truncated]

\* decompress of the buffer a compress call returned, whole or without its
\* last byte
DecompressOutput(s, truncated, useDictionary, t) ==
    /\ call[s].pc = "done"
    /\ truncated => Len(call[s].result) > 0
    /\ decompress(IF truncated
                  THEN SubSeq(call[s].result, 1, Len(call[s].result) - 1)
                  ELSE call[s].result,
                  useDictionary, SourceOf(call[s], truncated), t)

\* decompress of a buffer from elsewhere
RawBuffers == {<<>>, <<7>>}

DecompressRaw(buf, useDictionary, t) ==
    decompress(buf, useDictionary, NoSource, t)

----------------------------------------------------------------------------
(* getMetrics() *)

getMetrics ==
    [compressionTime |-> performanceMetrics.compressionTime,
     decompressionTime |-> performanceMetrics.decompressionTime,
     originalSize |-> performanceMetrics.originalSize,
     compressedSize |-> performanceMetrics.compressedSize,
     compressionRatio |->
         [num |-> performanceMetrics.originalSize,
          den |-> IF performanceMetrics.compressedSize # 0
                  THEN performanceMetrics.compressedSize ELSE 1]]

----------------------------------------------------------------------------------------------------------------------------------------
(* The processor and its callers.  slots: the compressWithProgress calls   *)
(* the callers make, one after another or overlapping; the other sets:     *)
(* what the callers pass.                                                  *)

Step(slots, buffers, levels, chunkSizes, samples, raws, durations, initLimit) ==
    \/ InitCall(initLimit)
    \/ \E k \in 1..Len(inits) : InitResolve(k)
    \/ \E k \in 1..Len(inits) : InitReject(k)
    \/ \E sampleData \in samples, k \in KArgs : createDictionary(sampleData, k)
    \/ \E s \in slots, data \in buffers, level \in levels,
          useDictionary \in BOOLEAN, chunkSize \in chunkSizes,
          cb \in BOOLEAN, outcome \in Outcomes, t \in durations :
          compressWithProgress(s, data, level, TRUE, useDictionary,
                               chunkSize, cb, outcome, t)
    \/ \E s \in slots, data \in buffers, level \in levels,
          useDictionary \in BOOLEAN, outcome \in Outcomes, t \in durations :
          compressWithProgress(s, data, level, FALSE, useDictionary,
                               DefaultChunkSize, FALSE, outcome, t)
    \/ \E s \in slots, outcome \in Outcomes : TimerFires(s, outcome)
    \/ \E s \in slots, t \in durations : StreamReturns(s, t)
    \/ \E s \in slots, truncated \in BOOLEAN, useDictionary \in BOOLEAN,
          t \in durations : DecompressOutput(s, truncated, useDictionary, t)
    \/ \E buf \in raws, useDictionary \in BOOLEAN, t \in durations :
          DecompressRaw(buf, useDictionary, t)

(* One compressWithProgress call, init() called once *)

Next ==
    Step({1}, BuffersUpTo(MaxLen), Levels, ChunkSizes, {<<1>>}, {<<7>>}, {1}, 1)

Spec == Init /\ [][Next]_vars

(* The same, the event loop running every timer that is due and resuming *)
(* every function whose awaited promise has settled                      *)

EventLoop ==
    /\ WF_vars(\E outcome \in Outcomes : TimerFires(1, outcome))
    /\ WF_vars(\E t \in {1} : StreamReturns(1, t))

SpecLive == Init /\ [][Next]_vars /\ EventLoop

(* Two compressWithProgress calls, in sequence or overlapping *)

NextProc ==
    Step(Calls, {<<>>, <<1, 2>>}, {5}, {1}, {<<1>>}, {<<7>>}, {1}, 1)

SpecProc == Init /\ [][NextProc]_vars

(* Any number of init() calls around one compressWithProgress call *)

NextInit ==
    Step({1}, {<<1, 2>>}, {5}, {1}, {<<1>>}, RawBuffers, {1}, MaxInits)

SpecInit == Init /\ [][NextInit]_vars

(* createDictionary on samples of every size around one call *)

NextDict ==
    Step({1}, {<<1, 2>>}, {5}, {2}, Samples, {<<7>>}, Durations, 1)

SpecDict == Init /\ [][NextDict]_vars

(* One streaming call on inputs of every length up to MaxInput, with chunk *)
(* sizes below, at and above the input's length                           *)

ChunkingSizes == {1, 3, 4, 16}

NextChunk ==
    Step({1}, {Ramp(n) : n \in 0..MaxInput}, {5}, ChunkingSizes, {<<1>>}, {<<7>>}, {1}, 1)

SpecChunk == Init /\ [][NextChunk]_vars

(* createDictionary on one sample or another around and between the *)
(* chunks of one streaming call                                      *)

NextStream ==
    Step({1}, {<<1, 2>>}, {5}, {1}, {<<1>>, <<2>>}, {<<7>>}, {1}, 1)

SpecStream == Init /\ [][NextStream]_vars

----------------------------------------------------------------------------
(* Properties *)

NotInitializedError == "ZSTD not initialized"

\* A compressWithProgress call that got past the not-initialized check
Started(c) == c.pc # "idle" /\ c.error # NotInitializedError

\* A compressWithProgress call that is over
Over(c) == c.pc \in {"done", "failed"}

\* The compressed chunks the codec returned to a call, in call order
CodecOutputs(c) == [k \in 1..Len(c.log) |-> c.log[k].out]

\* uint32, little-endian
LE32(n) ==
    <<n % 256, (n \div 256) % 256, (n \div 65536) % 256,
      (n \div 16777216) % 256>>

\* (uint32 length LE, bytes[length]) per chunk, concatenated
RECURSIVE Framed(_)
Framed(outs) ==
    IF Len(outs) = 0
    THEN <<>>
    ELSE LE32(Len(outs[1])) \o outs[1] \o Framed(Tail(outs))

\* C1: round trip.  decompress of the whole buffer a compressWithProgress
\* call returned, with the same useDictionary flag and with the dictionary
\* every codec call of the compression was given, returns the call's input
\* (chunkSize > 0 when streaming; stated for a non-empty input, the empty
\* one being C11's).
C1_RoundTrip ==
    ( /\ dres.called
      /\ dres.src.fromCall
      /\ Len(dres.src.data) > 0
      /\ ~dres.src.truncated
      /\ dres.useDictionary = dres.src.useDictionary
      /\ dres.src.useStream => dres.src.chunkSize > 0
      /\ \A d \in dres.src.dictArgs : d = dres.dict )
    => (dres.status = "ok" /\ dres.out = dres.src.data)

\* C2: streaming wire format.  The buffer a streaming call returns is, in
\* chunk order, one frame per chunk: the 4-byte little-endian length of the
\* chunk's compressed bytes, then those bytes, and nothing else.
C2_WireFormat ==
    \A s \in Calls :
        (call[s].pc = "done" /\ call[s].useStream)
        => call[s].result = Framed(CodecOutputs(call[s]))

\* C4: with useDictionary and no dictionary ever set, a call on an
\* initialized processor fails with a configuration error and no codec call
\* is made.
C4_NoDictionaryRejected ==
    \A s \in Calls :
        ( /\ Started(call[s])
          /\ call[s].useDictionary
          /\ dictionary = Null
          /\ call[s].useStream => call[s].chunkSize > 0 )
        => ( /\ call[s].log = <<>>
             /\ Over(call[s]) =>
                    (call[s].pc = "failed" /\ call[s].error = "ConfigError") )

\* C5: a streaming call with chunkSize <= 0 on an initialized processor is
\* rejected with a configuration error before any work: no chunk, no codec
\* call, no progress callback, no yield.
C5_ChunkSizeRejected ==
    \A s \in Calls :
        (Started(call[s]) /\ call[s].useStream /\ call[s].chunkSize <= 0)
        => ( /\ call[s].chunks = <<>>
             /\ call[s].log = <<>>
             /\ call[s].progress = <<>>
             /\ call[s].yields = 0
             /\ Over(call[s]) =>
                    (call[s].pc = "failed" /\ call[s].error = "ConfigError") )

\* C9: framing integrity.  decompress of a streaming call's output without
\* its last byte fails with a framing error and returns no buffer.
C9_TruncatedRejected ==
    ( /\ dres.called
      /\ dres.src.fromCall
      /\ dres.src.useStream
      /\ dres.src.truncated )
    => (dres.status = "failed" /\ dres.error = "FramingError")

\* C10: init() starts the library's initialization at most once, however
\* many init() calls are made, and once the codec is set no step changes it.
C10_InitOnce ==
    [][Len(inits') <= 1 /\ (codec # 0 => codec' = codec)]_vars

\* init() has completed successfully at least once
InitSucceeded == \E k \in 1..Len(inits) : inits[k] = "ready"

\* C3: as long as no init() call has completed successfully, every
\* compressWithProgress and decompress call fails with the not-initialized
\* error, no codec call is made, no progress callback is invoked, and the
\* step of such a call leaves the metrics and the dictionary as they were.
C3_NotInitialized ==
    /\ [](~InitSucceeded =>
            /\ \A s \in Calls :
                  call[s].pc # "idle" =>
                      /\ call[s].pc = "failed"
                      /\ call[s].error = NotInitializedError
                      /\ call[s].log = <<>>
                      /\ call[s].chunks = <<>>
                      /\ call[s].progress = <<>>
            /\ dres.called =>
                  /\ dres.status = "failed"
                  /\ dres.error = NotInitializedError
                  /\ ~dres.codecCalled
            /\ performanceMetrics = InitialMetrics)
    /\ [][(~InitSucceeded /\ (call' # call \/ dres'.called))
              => (dictionary' = dictionary
                    /\ performanceMetrics' = performanceMetrics)]_vars

C3_Witness ==
    /\ \E k \in 1..Len(inits) : inits[k] = "pending"
    /\ \E k \in 1..Len(inits) : inits[k] = "failed"
    /\ ~InitSucceeded
    /\ call[1].pc = "failed"
    /\ call[1].useStream
    /\ dres.called
    /\ dictionary # Null

\* Fractions a/b and c/d with b, d > 0
FracEq(x, y) == x.num * y.den = y.num * x.den
FracLeq(x, y) == x.num * y.den <= y.num * x.den

\* Bytes of the input handed to the codec in the first k codec calls
RECURSIVE BytesProcessed(_, _)
BytesProcessed(log, k) ==
    IF k = 0 THEN 0 ELSE Len(log[k].chunk) + BytesProcessed(log, k - 1)

\* A streaming call on a non-empty input with chunkSize > 0
PlainStreaming(c) ==
    Started(c) /\ c.useStream /\ c.chunkSize > 0 /\ Len(c.data) > 0

\* What C6 says of every fraction reported so far
ProgressSound(c) ==
    \A k \in 1..Len(c.progress) :
        LET f == c.progress[k].frac
        IN  /\ f.den > 0
            /\ 0 <= f.num
            /\ f.num <= f.den
            /\ FracEq(f, [num |-> BytesProcessed(c.log, k),
                          den |-> Len(c.data)])
            /\ k > 1 => FracLeq(c.progress[k - 1].frac, f)

EndsAtOne(c) ==
    LET f == c.progress[Len(c.progress)].frac IN f.num = f.den

C7_Metrics ==
    LET m == getMetrics
    IN  /\ m.originalSize = lastReturn.originalLength
        /\ m.compressedSize = lastReturn.returnedLength
        /\ ~lastReturn.valid => (m.originalSize = 0 /\ m.compressedSize = 0)
        /\ m.compressionRatio.num = m.originalSize
        /\ m.compressionRatio.den = Max(m.compressedSize, 1)

\* Two overlapping streaming calls: one has returned while the other is
\* still between two chunks
C7_Witness ==
    /\ call[1].pc = "yield"
    /\ Len(call[1].data) = 2
    /\ call[2].pc = "done"
    /\ call[2].useStream
    /\ Len(call[2].data) = 2
    /\ Len(call[2].chunks) = 2
    /\ getMetrics.originalSize = 2
    /\ getMetrics.compressedSize = Len(call[2].result)
    /\ getMetrics.compressedSize > 1

\* C8 as claimed: createDictionary(sample, k) returns the first
\* min(len(sample), k) bytes of sample and stores them as the dictionary.
C8_DictionaryAsClaimed ==
    dictCall.called =>
        /\ dictCall.ret =
               SubSeq(dictCall.sample, 1, Min(Len(dictCall.sample), dictCall.k))
        /\ dictionary = Bytes(dictCall.ret)

\* C8 amended: createDictionary(sample, k) returns the first
\* min(len(sample), 1024) bytes of sample whatever k is, and stores exactly
\* them as the dictionary.
C8_Dictionary ==
    dictCall.called =>
        /\ Len(dictCall.ret) = Min(Len(dictCall.sample), 1024)
        /\ \A j \in 1..Len(dictCall.ret) : dictCall.ret[j] = dictCall.sample[j]
        /\ dictionary = Bytes(dictCall.ret)

C8_Witness ==
    /\ dictCall.called
    /\ dictCall.k = 1
    /\ Len(dictCall.sample) = 1025
    /\ Len(dictCall.ret) = 1024

\* C11: empty input.  compressWithProgress on a zero-length buffer succeeds
\* whatever the options (the codec not failing); when streaming it makes no
\* chunk, no codec call and no progress callback; and decompress of the
\* buffer it returned, with the same useDictionary flag and the same
\* dictionary, returns a zero-length buffer.
C11_EmptyInput ==
    /\ \A s \in Calls :
          (Started(call[s]) /\ Len(call[s].data) = 0) =>
              /\ call[s].useStream =>
                     /\ call[s].chunks = <<>>
                     /\ call[s].log = <<>>
                     /\ call[s].progress = <<>>
                     /\ call[s].pc \in {"await", "done"}
              /\ (\A k \in 1..Len(call[s].log) : ~call[s].log[k].threw)
                     => call[s].pc \in {"await", "done"}
    /\ ( /\ dres.called
         /\ dres.src.fromCall
         /\ Len(dres.src.data) = 0
         /\ ~dres.src.truncated
         /\ dres.useDictionary = dres.src.useDictionary
         /\ \A d \in dres.src.dictArgs : d = dres.dict )
       => (dres.status = "ok" /\ dres.out = <<>>)

\* A streaming call that failed because the codec threw on a chunk
CodecFailed(c) ==
    /\ c.pc = "failed"
    /\ c.useStream
    /\ Len(c.log) > 0
    /\ c.log[Len(c.log)].threw

\* The index of the chunk the codec was last called on
LastChunkIndex(c) == Len(c.log) - 1

\* C12: the error of a streaming compression that failed in the codec
\* identifies the index of the failing chunk: two calls that failed on
\* chunks of different indices surface different errors.
C12_ErrorNamesChunk ==
    \A s1, s2 \in Calls :
        ( /\ CodecFailed(call[s1])
          /\ CodecFailed(call[s2])
          /\ LastChunkIndex(call[s1]) # LastChunkIndex(call[s2]) )
        => call[s1].error # call[s2].error

\* ceil(n / d), d > 0
CeilDiv(n, d) == (n + d - 1) \div d

\* The chunks a call has passed to the codec so far, in call order
ChunksPassed(c) == [k \in 1..Len(c.log) |-> c.log[k].chunk]

\* C13: chunking.  In a streaming call on n bytes with chunkSize > 0 the
\* k-th chunk passed to the codec is the bytes at offsets (k-1)*chunkSize up
\* to min(k*chunkSize, n) - 1 of the input, so the chunks come in increasing
\* offset order, contiguous and without overlap; every chunk but the last
\* has chunkSize bytes and the last has 1..chunkSize; a call that got
\* through its loop has passed exactly ceil(n / chunkSize) chunks, which
\* together are the whole input, and exactly one when chunkSize >= n > 0.
C13_Chunking ==
    \A s \in Calls :
        LET c == call[s]
            n == Len(c.data)
            passed == ChunksPassed(c)
        IN  (Started(c) /\ c.useStream /\ c.chunkSize > 0) =>
                /\ \A k \in 1..Len(passed) :
                      /\ passed[k] = SubSeq(c.data, (k - 1) * c.chunkSize + 1,
                                            Min(k * c.chunkSize, n))
                      /\ Len(passed[k]) \in 1..c.chunkSize
                      /\ k < Len(passed) => Len(passed[k]) = c.chunkSize
                /\ Len(passed) <= CeilDiv(n, c.chunkSize)
                /\ c.pc \in {"await", "done"} =>
                      /\ Len(passed) = CeilDiv(n, c.chunkSize)
                      /\ Concat(passed) = c.data
                      /\ (c.chunkSize >= n /\ n > 0) => Len(passed) = 1

\* 10 bytes with chunkSize 4: chunks of offsets 0..3, 4..7, 8..9
C13_Witness ==
    /\ call[1].pc = "done"
    /\ call[1].useStream
    /\ call[1].data = Ramp(10)
    /\ call[1].chunkSize = 4
    /\ ChunksPassed(call[1]) = <<<<0, 1, 2, 3>>, <<4, 5, 6, 7>>, <<8, 9>>>>

\* Bytes of the input from the loop index to the input's end
Remaining(c) == Max(Len(c.data) - c.i, 0)

\* C14: termination.  Every streaming call terminates, whatever the input
\* length and the chunkSize passed, timers being resumed and codec calls
\* returning: every pass resumed at a yield leaves strictly fewer bytes
\* between the loop index and the input's end than the pass before it.  (The
\* loop moves its index by the same chunkSize in every pass, so one pass
\* that does not bring it closer to the end means none ever does.)
C14_Termination ==
    [][\A s \in Calls :
          (call[s].pc = "yield" /\ call'[s] # call[s])
          => Remaining(call'[s]) < Remaining(call[s])]_vars

\* The codec threw on the k-th chunk passed to it by the call
CodecThrewOn(c, k) == k \in 1..Len(c.log) /\ c.log[k].threw

\* C15: fail-fast.  In a streaming call, once the codec has failed on a
\* chunk, that chunk is the last one ever passed to the codec, the progress
\* callback has been invoked for the chunks before it only, the call has
\* failed, and it returns no buffer, whole or partial.
C15_FailFast ==
    \A s \in Calls :
        \A k \in 1..Len(call[s].log) :
            (call[s].useStream /\ CodecThrewOn(call[s], k)) =>
                /\ k = Len(call[s].log)
                /\ Len(call[s].progress) = IF call[s].cb THEN k - 1 ELSE 0
                /\ call[s].pc = "failed"
                /\ call[s].result = <<>>

\* The codec failed on the second of three chunks, after one report
C15_Witness ==
    /\ call[1].useStream
    /\ call[1].cb
    /\ call[1].data = Ramp(10)
    /\ call[1].chunkSize = 4
    /\ CodecThrewOn(call[1], 2)
    /\ Len(call[1].progress) = 1
    /\ call[1].pc = "failed"

\* The sum of the compressed lengths reported to the callback
RECURSIVE ReportedTotal(_)
ReportedTotal(progress) ==
    IF Len(progress) = 0
    THEN 0
    ELSE progress[1].size + ReportedTotal(Tail(progress))

\* The codec calls of a call that returned
Returned(c) == {k \in 1..Len(c.log) : ~c.log[k].threw}

\* C16: in a streaming call with a progress callback, at every moment the
\* callback has been invoked exactly once for each chunk whose codec call
\* has returned, in chunk order (the k-th report carries the k-th chunk's
\* fraction and the length of the k-th chunk's compressed form), and every
\* yield taken follows its chunk's report; so the reported lengths sum to
\* the length of the buffer the call returns.  Without a callback nothing
\* is reported.
C16_Callback ==
    \A s \in Calls :
        LET c == call[s]
        IN  (Started(c) /\ c.useStream) =>
                IF c.cb
                THEN /\ Len(c.progress) = Cardinality(Returned(c))
                     /\ \A k \in 1..Len(c.progress) :
                           /\ k \in Returned(c)
                           /\ c.progress[k].size = Len(c.log[k].out)
                           /\ c.progress[k].frac =
                                  ProgressOf((k - 1) * c.chunkSize, c.chunkSize,
                                             Len(c.data))
                     /\ c.yields <= Len(c.progress)
                     /\ Len(c.progress) <= c.yields + 1
                     /\ c.pc \in {"await", "done"} =>
                           /\ c.yields = Len(c.progress)
                           /\ ReportedTotal(c.progress) = Len(c.result)
                ELSE c.progress = <<>>

\* Three chunks of 4, 4 and 2 bytes reported and returned
C16_Witness ==
    /\ call[1].pc = "done"
    /\ call[1].useStream
    /\ call[1].cb
    /\ call[1].data = Ramp(10)
    /\ call[1].chunkSize = 4
    /\ Len(call[1].progress) = 3
    /\ call[1].progress[3].size = 6
    /\ ReportedTotal(call[1].progress) = 22
    /\ Len(call[1].result) = 22

\* C17: dictionary stability within a stream.  In a streaming call with
\* useDictionary, started while a dictionary was set, every chunk is
\* compressed with the dictionary the first chunk was compressed with (the
\* one active when the call started), whatever createDictionary calls are
\* made while the call is suspended between chunks.
C17_DictionaryStable ==
    \A s \in Calls :
        LET c == call[s]
        IN  ( /\ Started(c)
              /\ c.useStream
              /\ c.useDictionary
              /\ Len(c.log) > 0
              /\ c.log[1].dict # Null )
            => \A k \in 1..Len(c.log) : c.log[k].dict = c.log[1].dict

\* The compressed form of the k-th chunk of the call's own input, under the
\* dictionary argument the call gave the codec for that chunk
OwnCompressed(c, k) ==
    ZstdStreamCompress(SubSeq(c.data, (k - 1) * c.chunkSize + 1,
                              Min(k * c.chunkSize, Len(c.data))),
                       c.level, c.log[k].dict)

\* C18: output isolation.  Whatever other call runs between its chunks, a
\* streaming call (chunkSize > 0) holds at every moment the compressed forms
\* of the first chunks of its own input, in chunk order, and nothing else,
\* and what it returns is the concatenation of the compressed forms of all
\* the chunks of its own input, in chunk order.
C18_Isolation ==
    \A s \in Calls :
        LET c == call[s]
        IN  (Started(c) /\ c.useStream /\ c.chunkSize > 0) =>
                /\ Len(c.chunks) <= Len(c.log)
                /\ \A k \in 1..Len(c.chunks) : c.chunks[k] = OwnCompressed(c, k)
                /\ c.pc \in {"await", "done"} =>
                      /\ Len(c.chunks) = CeilDiv(Len(c.data), c.chunkSize)
                      /\ c.result =
                             Concat([k \in 1..Len(c.chunks) |->
                                        OwnCompressed(c, k)])

\* Two calls in flight at once, both through their two chunks, with
\* outputs that differ (one compressed with the dictionary, one without)
C18_Witness ==
    /\ call[1].pc = "await"
    /\ call[2].pc = "await"
    /\ Len(call[1].chunks) = 2
    /\ Len(call[2].chunks) = 2
    /\ call[1].useDictionary
    /\ ~call[2].useDictionary
    /\ call[1].result # call[2].result
    /\ call[1].chunks[1] # call[2].chunks[1]
    /\ call[1].chunks[2] # call[2].chunks[2]

\* The metrics fields other than decompressionTime are left as they were
CompressionFieldsKept ==
    /\ performanceMetrics'.compressionTime = performanceMetrics.compressionTime
    /\ performanceMetrics'.originalSize = performanceMetrics.originalSize
    /\ performanceMetrics'.compressedSize = performanceMetrics.compressedSize

\* What C19 says of a step of compressWithProgress call s
CompressStepFrame(s) ==
    /\ dictionary' = dictionary
    /\ performanceMetrics'.decompressionTime =
           performanceMetrics.decompressionTime
    /\ call'[s].pc # "done" => performanceMetrics' = performanceMetrics

\* What C19 says of a decompress call
DecompressFrame ==
    /\ dictionary' = dictionary
    /\ CompressionFieldsKept
    /\ dres'.status = "failed" => performanceMetrics' = performanceMetrics

\* C19: frame of the metrics and the dictionary.  A compressWithProgress or
\* decompress call that fails (not initialized, codec error, callback
\* error) leaves every metrics field and the dictionary as they were; a
\* successful decompress changes no metrics field but decompressionTime; a
\* compressWithProgress call never changes decompressionTime, and changes
\* the other fields only when it returns; no step of either changes the
\* dictionary.
C19_Frame ==
    [][ /\ \A s \in Calls : call'[s] # call[s] => CompressStepFrame(s)
        /\ dres'.called => DecompressFrame ]_vars

\* A decompress call fails in the codec after a compress call returned and
\* with a dictionary set: the metrics are those of the compress call
C19_Witness ==
    /\ dres.called
    /\ dres.status = "failed"
    /\ dres.codecCalled
    /\ call[1].pc = "done"
    /\ dictionary = Bytes(<<2>>)
    /\ performanceMetrics =
           [compressionTime |-> 1, decompressionTime |-> 0,
            originalSize |-> 2, compressedSize |-> Len(call[1].result)]

====
